---------------------------- MODULE Spec2Model ----------------------------
(***************************************************************************)
(* Length-prefixed message and file transfer between a Listener            *)
(* (server-modified.py) and an Initiator (client-modified.py).             *)
(*                                                                         *)
(* Each peer is a sequential program.  A step of the model is one socket   *)
(* call (sock.sendall or sock.recv) returning, together with all the code  *)
(* that runs up to the peer's next socket call.  Bytes are 0..255, text is *)
(* its sequence of ASCII codes.                                            *)
(***************************************************************************)
EXTENDS Integers, Sequences, FiniteSets, TLC

VARIABLES
    st,     \* st[e]: the program state of peer e (locals, socket, files, log)
    wire,   \* wire[e]: bytes written by the other peer that e has not read yet
    net     \* "up", or "down" once the connection has been reset

vars == <<st, wire, net>>

Peers == {"L", "I"}
Other(e) == IF e = "L" THEN "I" ELSE "L"

----------------------------------------------------------------------------
(* Bounds of the model *)

\* longest payload handed to send_message in the channel specification
MaxLen == 3
\* longest file content in the file specification
MaxFile == 3
\* stands for the 64 KiB chunk of send_file / recv_file, scaled to the files
ChunkSize == 2
\* stands for the 1000 repetitions of the large test message
LargeRepeat == 1
\* longest identity text an arbitrary peer sends to the Listener
MaxIdent == 3

(* Program constants *)

\* 1024 * 1024 * 100, the largest declared length recv_message accepts
Ceiling == 104857600

----------------------------------------------------------------------------
(* Values *)

Min(a, b) == IF a < b THEN a ELSE b

\* sequences over S of length 0..n
SeqUpTo(S, n) == UNION {[1..k -> S] : k \in 0..n}

Drop(s, k) == SubSeq(s, k + 1, Len(s))
Take(s, k) == SubSeq(s, 1, k)
IsPrefix(s, t) == Len(s) <= Len(t) /\ s = Take(t, Len(s))

\* a Python value: None, a bool, or a bytes object
None == [k |-> "none", v |-> <<>>]
Bytes(b) == [k |-> "bytes", v |-> b]
Bool(b) == [k |-> IF b THEN "true" ELSE "false", v |-> <<>>]
Pending == [k |-> "pending", v |-> <<>>]
Raised == [k |-> "raise", v |-> <<>>]

\* Python truthiness of a recv_message result: None and b'' are both falsy
Truthy(x) == x.k = "bytes" /\ x.v # <<>>

\* a file of the local filesystem
NoFile == [exists |-> FALSE, data |-> <<>>]
File(d) == [exists |-> TRUE, data |-> d]

----------------------------------------------------------------------------
(* struct.pack / struct.unpack, big-endian *)

RECURSIVE PackBE(_, _)
\* the w low-order base-256 digits of n, most significant first
PackBE(n, w) == IF w = 0 THEN <<>> ELSE Append(PackBE(n \div 256, w - 1), n % 256)

RECURSIVE Shift(_, _)
Shift(n, w) == IF w = 0 THEN n ELSE Shift(n \div 256, w - 1)

\* struct.pack raises struct.error when n does not fit in w bytes
Fits(n, w) == n >= 0 /\ Shift(n, w) = 0

RECURSIVE UnpackBE(_)
UnpackBE(b) == IF b = <<>> THEN 0 ELSE UnpackBE(Take(b, Len(b) - 1)) * 256 + b[Len(b)]

Pack32LittleEndian(n) == <<n % 256, (n \div 256) % 256, (n \div 65536) % 256, (n \div 16777216) % 256>>

\* struct.pack('!I', message_length)
Pack32(n) == PackBE(n, 4)
\* struct.unpack('!I', length_header)[0]
Unpack32(b) == UnpackBE(b)
\* struct.pack('!Q', file_size)
Pack64(n) == PackBE(n, 8)
\* struct.unpack('!Q', file_size_data)[0]
Unpack64(b) == UnpackBE(b)

\* the bytes send_message puts on the stream for payload b
Envelope(b) == Pack32(Len(b)) \o b

----------------------------------------------------------------------------
(* Text *)

\* bytes.decode('utf-8') raises UnicodeDecodeError on a byte that cannot
\* start a character; the model's alphabets hold ASCII and 0xFF only.
Utf8Valid(b) == \A i \in 1..Len(b) : b[i] < 128

Plus == 43

\* "Hello"
Hello == <<72, 101, 108, 108, 111>>
\* "ERROR: "
ErrorPrefix == <<69, 82, 82, 79, 82, 58, 32>>
\* "ERROR: Invalid format"
ErrInvalidFormat == ErrorPrefix \o <<73, 110, 118, 97, 108, 105, 100, 32, 102, 111, 114, 109, 97, 116>>
\* "ERROR: Missing separator"
ErrMissingSeparator == ErrorPrefix \o <<77, 105, 115, 115, 105, 110, 103, 32, 115, 101, 112, 97, 114, 97, 116, 111, 114>>
\* "9001"
ClientPort == <<57, 48, 48, 49>>
\* "tp-1a201-40"
MachineName == <<116, 112, 45, 49, 97, 50, 48, 49, 45, 52, 48>>
\* "127.0.0.1", and "10.0.0.5" for an address found by get_local_ip
LocalIPs == {<<49, 50, 55, 46, 48, 46, 48, 46, 49>>, <<49, 48, 46, 48, 46, 48, 46, 53>>}
\* "test_file.txt"
TestFileName == <<116, 101, 115, 116, 95, 102, 105, 108, 101, 46, 116, 120, 116>>
\* "This is a large test message! "
LargeUnit == <<84, 104, 105, 115, 32, 105, 115, 32, 97, 32, 108, 97, 114, 103, 101, 32,
               116, 101, 115, 116, 32, 109, 101, 115, 115, 97, 103, 101, 33, 32>>

RECURSIVE Repeat(_, _)
Repeat(s, n) == IF n = 0 THEN <<>> ELSE s \o Repeat(s, n - 1)

\* "This is a large test message! " * 1000
LargeMessage == Repeat(LargeUnit, LargeRepeat)

\* f"{client_port}+{machine_name}+{client_ip}"
Identity(ip) == ClientPort \o <<Plus>> \o MachineName \o <<Plus>> \o ip

\* len(text.split('+')): one more than the number of separators
FieldCount(text) == 1 + Cardinality({i \in 1..Len(text) : text[i] = Plus})

----------------------------------------------------------------------------
(* The state of one peer *)

\* pc    the call of the script the peer is in
\* sub   inside send_file / recv_file: "name", "size" or "chunk"
\* io    the socket call the peer is blocked in:
\*         "shdr"  sock.sendall(length_header)   of send_message
\*         "sbody" sock.sendall(message_bytes)   of send_message
\*         "sraw"  sock.sendall(...)             called directly
\*         "rhdr"  sock.recv in recv_exact(sock, 4)              of recv_message
\*         "rbody" sock.recv in recv_exact(sock, message_length) of recv_message
\*         "raw"   sock.recv in recv_exact called directly
\* tx    the bytes of the pending sendall (message_bytes while in "shdr")
\* rx    the locals data and bytes_remaining of recv_exact
\* mlen  message_length of the current recv_message, -1 before it is decoded
\* timed whether the socket has a receive timeout (settimeout)
\* open  whether the peer still holds its socket open
\* err   whether a sendall of this socket has failed (it keeps failing)
\* arg   the argument of the call under test, ip the address get_local_ip found
\* fname, fsize, off  file name, file size and bytes sent / bytes received
\* disk  the file the peer reads (Listener) or writes (Initiator)
\* out   "running", "Complete", "Aborted", "Stopped", "Crashed", "Returned"
\* ret   the value the call under test returned
\* log   the error and completion lines printed to the status sink
\* History, read by the properties only:
\* path  the calls entered, fails the calls that reported failure,
\* vals  the values recv_message returned, exc the exceptions raised,
\* sent  the bytes written to the socket, got the number of bytes read,
\* sized whether the size field of a file has been received,
\* frags the chunks sock.recv returned (recorded when trace is set)
\* A caller of several framed operations in a row:
\* msgs  the payloads it sends one after the other, turn the one it is at,
\* want  the number of recv_message calls it makes
Proc0 ==
    [pc |-> "idle", sub |-> "none", io |-> "idle", tx |-> <<>>,
     rx |-> [data |-> <<>>, need |-> 0], mlen |-> -1,
     timed |-> FALSE, open |-> TRUE, err |-> FALSE,
     arg |-> <<>>, ip |-> <<>>, fname |-> <<>>, fsize |-> 0, off |-> 0,
     disk |-> NoFile, out |-> "running", ret |-> Pending, log |-> <<>>,
     path |-> <<>>, fails |-> <<>>, vals |-> <<>>, exc |-> <<>>,
     sent |-> <<>>, got |-> 0, sized |-> FALSE, trace |-> FALSE, frags |-> <<>>,
     msgs |-> <<>>, turn |-> 0, want |-> 0]

Log(p, line) == [p EXCEPT !.log = Append(@, line)]
Enter(p, site) == [p EXCEPT !.pc = site, !.sub = "none", !.path = Append(@, site)]

\* the script ends; the with-block then closes the socket (action Close)
Exit(p, outcome) ==
    [p EXCEPT !.pc = "done", !.sub = "none", !.io = "idle", !.tx = <<>>,
              !.rx = [data |-> <<>>, need |-> 0], !.out = outcome]

\* send_message up to its first sendall (struct.pack cannot fail: every
\* length of the model fits in 32 bits)
BeginSend(p, msg) == [p EXCEPT !.io = "shdr", !.tx = msg]
\* a direct sock.sendall(b)
BeginSendAll(p, b) == [p EXCEPT !.io = "sraw", !.tx = b]
\* recv_message up to its first sock.recv
BeginRecvMessage(p) ==
    [p EXCEPT !.io = "rhdr", !.rx = [data |-> <<>>, need |-> 4], !.mlen = -1, !.frags = <<>>]
\* recv_exact(sock, n) called directly, n > 0
BeginRecvExact(p, n) == [p EXCEPT !.io = "raw", !.rx = [data |-> <<>>, need |-> n]]

\* the call under test has returned val; its caller then closes the socket
HarnessReturn(p, val) == [Exit(p, "Returned") EXCEPT !.ret = val]

----------------------------------------------------------------------------
(* Listener: main of server-modified.py, and send_file *)

ListenerStart(p) == BeginSend(Enter(p, "L_hello"), Hello)

ListenerFinish(p) == Exit(Log(p, "L: Enhanced protocol completed successfully!"), "Complete")

\* send_file's result is not looked at (ret keeps it for the properties)
ListenerAfterFile(p, ok) == [ListenerFinish(p) EXCEPT !.ret = Bool(ok)]

\* send_file returns ok to its caller
ReturnSendFile(p, ok) ==
    IF p.pc = "L_file" THEN ListenerAfterFile(p, ok) ELSE HarnessReturn(p, Bool(ok))

\* except Exception in send_file
SendFileExcept(p) == ReturnSendFile(Log(p, "Error sending file"), FALSE)

\* the while loop of send_file, up to its sendall or to the return
SendFileLoop(p) ==
    IF p.off < p.fsize
    THEN LET n == Min(ChunkSize, p.fsize - p.off)
             chunk == SubSeq(p.disk.data, p.off + 1, Min(p.off + n, Len(p.disk.data)))
         IN  IF chunk = <<>>
             THEN ReturnSendFile(p, TRUE)
             ELSE BeginSendAll([p EXCEPT !.sub = "chunk"], chunk)
    ELSE ReturnSendFile(p, TRUE)

\* send_file from its first line to send_message(sock, filename)
SendFileStart(p) ==
    IF ~p.disk.exists
    THEN ReturnSendFile(Log(p, "File not found"), FALSE)
    ELSE BeginSend([p EXCEPT !.sub = "name", !.fsize = Len(p.disk.data),
                             !.fname = TestFileName, !.off = 0], TestFileName)

SendFileAfterName(p, ok) ==
    IF ~ok THEN ReturnSendFile(p, FALSE)
    ELSE BeginSendAll([p EXCEPT !.sub = "size"], Pack64(p.fsize))

SendFileAfterSize(p) == SendFileLoop(p)

SendFileAfterChunk(p) == SendFileLoop([p EXCEPT !.off = @ + Len(p.tx)])

ListenerAfterHello(p, ok) ==
    IF ok THEN BeginRecvMessage(Enter(p, "L_ident"))
    ELSE Exit(Log(p, "Failed to send Hello message"), "Aborted")

\* '+' in client_response, and len(parts) == 3
HasSeparator(text) == \E i \in 1..Len(text) : text[i] = Plus
IdentityOK(text) == HasSeparator(text) /\ FieldCount(text) = 3

\* an exception nothing catches ends the Listener
ListenerCrash(p) == Exit(Log(p, "L: Traceback"), "Crashed")

ListenerOnIdentity(p, val) ==
    IF ~Truthy(val)
    THEN Exit(Log(p, "No valid response received from client"), "Aborted")
    ELSE IF ~Utf8Valid(val.v) THEN ListenerCrash(p)
    ELSE IF IdentityOK(val.v) THEN BeginSend(Enter(p, "L_large"), LargeMessage)
    ELSE IF HasSeparator(val.v)
    THEN BeginSend(Enter(Log(p, "Invalid client response format (expected: Port+Machine+IP)"),
                         "L_err"), ErrInvalidFormat)
    ELSE BeginSend(Enter(Log(p, "Invalid client response format (missing + separator)"),
                         "L_err"), ErrMissingSeparator)

\* the result of sending the large message only selects a print
ListenerAfterLarge(p, ok) ==
    IF p.disk.exists THEN SendFileStart(Enter(p, "L_file")) ELSE ListenerFinish(p)

ListenerAfterError(p, ok) == Exit(p, "Aborted")

----------------------------------------------------------------------------
(* Initiator: main of client-modified.py *)

InitiatorStart(p) == BeginRecvMessage(Enter(p, "I_hello"))

\* except Exception as e, around the whole session
InitiatorOuterExcept(p) == Exit(Log(p, "Error"), "Aborted")

GreetingOKPrefix(text) == IsPrefix(text, Hello)

\* server_message == "Hello"
GreetingOK(text) == text = Hello

InitiatorOnHello(p, val) ==
    IF ~Truthy(val)
    THEN Exit(Log(p, "No Hello message received from server"), "Aborted")
    ELSE IF ~Utf8Valid(val.v) THEN InitiatorOuterExcept(p)
    ELSE IF GreetingOK(val.v) THEN BeginSend(Enter(p, "I_ident"), Identity(p.ip))
    ELSE Exit(Log(p, "Unexpected message from server"), "Stopped")

InitiatorAfterIdentity(p, ok) ==
    IF ok THEN BeginRecvMessage(Enter(p, "I_large"))
    ELSE Exit(Log(p, "Failed to send response"), "Aborted")

\* the large message is decoded when truthy; then settimeout(5.0) and the probe
InitiatorOnLarge(p, val) ==
    IF Truthy(val) /\ ~Utf8Valid(val.v) THEN InitiatorOuterExcept(p)
    ELSE BeginRecvMessage(Enter([p EXCEPT !.timed = TRUE], "I_probe"))

\* finally: settimeout(None); then the completion lines and return
InitiatorFinish(p) ==
    Exit(Log([p EXCEPT !.timed = FALSE], "I: Enhanced protocol completed successfully!"),
         "Complete")

\* except socket.timeout / except Exception as file_error, around the probe
InitiatorFileExcept(p, exc) ==
    InitiatorFinish(Log(p, IF exc = "timeout" THEN "No file transfer (timeout - normal)"
                                              ELSE "File transfer issue"))

InitiatorOnProbeFatal(p, val) ==
    IF ~Truthy(val) THEN Exit(Log([p EXCEPT !.timed = FALSE], "No file name received"), "Aborted")
    ELSE IF ~Utf8Valid(val.v)
    THEN InitiatorFileExcept([p EXCEPT !.timed = FALSE], "UnicodeDecodeError")
    ELSE BeginRecvExact(Enter([p EXCEPT !.timed = FALSE, !.fname = val.v], "I_size"), 8)

InitiatorOnProbeKeepsTimeout(p, val) ==
    IF ~Truthy(val) THEN InitiatorFinish(p)
    ELSE IF ~Utf8Valid(val.v) THEN InitiatorFileExcept(p, "UnicodeDecodeError")
    ELSE BeginRecvExact(Enter([p EXCEPT !.fname = val.v], "I_size"), 8)

\* the probe's recv_message has returned val: a name resets the timeout
\* (settimeout(None)) and the size is read; otherwise the try block is left
InitiatorOnProbe(p, val) ==
    IF ~Truthy(val) THEN InitiatorFinish(p)
    ELSE IF ~Utf8Valid(val.v)
    THEN InitiatorFileExcept([p EXCEPT !.timed = FALSE], "UnicodeDecodeError")
    ELSE BeginRecvExact(Enter([p EXCEPT !.timed = FALSE, !.fname = val.v], "I_size"), 8)

\* while bytes_received < file_size, up to the next recv_exact or the end
InitiatorFileLoop(p) ==
    IF p.off < p.fsize
    THEN BeginRecvExact([p EXCEPT !.pc = "I_chunk"], Min(ChunkSize, p.fsize - p.off))
    ELSE InitiatorFinish(p)

\* the size is unpacked and open(save_filename, 'wb') creates the file
InitiatorOnSize(p, data) ==
    InitiatorFileLoop([p EXCEPT !.fsize = Unpack64(data), !.off = 0, !.disk = File(<<>>),
                                !.sized = TRUE])

InitiatorOnChunk(p, data) ==
    InitiatorFileLoop([p EXCEPT !.disk = File(@.data \o data), !.off = @ + Len(data)])

----------------------------------------------------------------------------
(* recv_file of client-modified.py *)

ReturnRecvFile(p, ok) == HarnessReturn(p, Bool(ok))

RecvFileStart(p) == BeginRecvMessage([p EXCEPT !.sub = "name"])

\* except Exception in recv_file
RecvFileExcept(p) == ReturnRecvFile(Log(p, "Error receiving file"), FALSE)

RecvFileLoopFullChunks(p) ==
    IF p.off < p.fsize
    THEN BeginRecvExact([p EXCEPT !.sub = "chunk"], ChunkSize)
    ELSE ReturnRecvFile(p, TRUE)

\* while bytes_received < file_size, up to the next recv_exact or the return
RecvFileLoop(p) ==
    IF p.off < p.fsize
    THEN BeginRecvExact([p EXCEPT !.sub = "chunk"], Min(ChunkSize, p.fsize - p.off))
    ELSE ReturnRecvFile(p, TRUE)

RecvFileOnName(p, val) ==
    IF ~Truthy(val) THEN ReturnRecvFile(p, FALSE)
    ELSE IF ~Utf8Valid(val.v) THEN RecvFileExcept(p)
    ELSE BeginRecvExact([p EXCEPT !.sub = "size", !.fname = val.v], 8)

RecvFileOnSizeLazyOpen(p, data) ==
    RecvFileLoop([p EXCEPT !.fsize = Unpack64(data), !.off = 0, !.sized = TRUE])

\* the size is unpacked and open(full_save_path, 'wb') creates the file
RecvFileOnSize(p, data) ==
    RecvFileLoop([p EXCEPT !.fsize = Unpack64(data), !.off = 0, !.disk = File(<<>>),
                           !.sized = TRUE])

RecvFileOnChunk(p, data) ==
    RecvFileLoop([p EXCEPT !.disk = File(@.data \o data), !.off = @ + Len(data)])

----------------------------------------------------------------------------
(* Returning to the caller *)

\* the call of the script that failed, for the history
Site(p) == IF p.sub = "none" THEN p.pc ELSE "file"

\* send_message returned ok to a caller that sends msgs one after the other
SenderAfterSend(p, ok) ==
    IF ok /\ p.turn < Len(p.msgs)
    THEN BeginSend([p EXCEPT !.turn = @ + 1], p.msgs[p.turn + 1])
    ELSE HarnessReturn(p, Bool(ok))

\* recv_message returned val to a caller that makes want calls in a row
ReceiverAfterRecv(p, val) ==
    IF val # None /\ Len(p.vals) < p.want
    THEN BeginRecvMessage(p)
    ELSE HarnessReturn(p, val)

\* send_message returns ok
ReturnSend(p, ok) ==
    LET q == IF ok THEN p ELSE [p EXCEPT !.fails = Append(@, Site(p))]
    IN  CASE q.sub = "name" -> SendFileAfterName(q, ok)
          [] q.pc = "L_hello" -> ListenerAfterHello(q, ok)
          [] q.pc = "L_large" -> ListenerAfterLarge(q, ok)
          [] q.pc = "L_err" -> ListenerAfterError(q, ok)
          [] q.pc = "I_ident" -> InitiatorAfterIdentity(q, ok)
          [] q.pc = "H_sendn" -> SenderAfterSend(q, ok)
          [] OTHER -> HarnessReturn(q, Bool(ok))

\* recv_message returns val
ReturnRecv(p, val) ==
    LET q == [p EXCEPT !.vals = Append(@, val),
                       !.fails = IF val = None THEN Append(@, Site(p)) ELSE @]
    IN  CASE q.sub = "name" -> RecvFileOnName(q, val)
          [] q.pc = "L_ident" -> ListenerOnIdentity(q, val)
          [] q.pc = "I_hello" -> InitiatorOnHello(q, val)
          [] q.pc = "I_large" -> InitiatorOnLarge(q, val)
          [] q.pc = "I_probe" -> InitiatorOnProbe(q, val)
          [] q.pc = "H_recvn" -> ReceiverAfterRecv(q, val)
          [] OTHER -> HarnessReturn(q, val)

\* recv_exact, called directly, returns data
ReturnExact(p, data) ==
    CASE p.pc = "I_size" -> InitiatorOnSize(p, data)
      [] p.pc = "I_chunk" -> InitiatorOnChunk(p, data)
      [] p.sub = "size" -> RecvFileOnSize(p, data)
      [] OTHER -> RecvFileOnChunk(p, data)

\* a direct sock.sendall returns
ReturnSendAll(p) ==
    IF p.sub = "size" THEN SendFileAfterSize(p) ELSE SendFileAfterChunk(p)

\* exception exc leaves the current call: the innermost handler around it
Raise(p, exc) ==
    LET q == [p EXCEPT !.exc = Append(@, exc)]
    IN  CASE q.pc \in {"L_file", "H_sendfile"} -> SendFileExcept(q)
          [] q.pc = "H_recvfile" -> RecvFileExcept(q)
          [] q.pc \in {"I_probe", "I_size", "I_chunk"} -> InitiatorFileExcept(q, exc)
          [] q.pc \in {"I_hello", "I_ident", "I_large"} -> InitiatorOuterExcept(q)
          [] q.pc \in {"L_hello", "L_ident", "L_large", "L_err"} -> ListenerCrash(q)
          [] OTHER -> HarnessReturn(q, Raised)

----------------------------------------------------------------------------
(* recv_exact, send_message and recv_message *)

RecvExactNoLoop(rx, chunk) ==
    IF chunk = <<>>
    THEN [st |-> "raise", rx |-> rx]
    ELSE [st |-> "done", rx |-> [data |-> rx.data \o chunk, need |-> rx.need - Len(chunk)]]

RecvExactShortOnClose(rx, chunk) ==
    IF chunk = <<>>
    THEN [st |-> "done", rx |-> rx]
    ELSE [st |-> IF rx.need - Len(chunk) > 0 THEN "more" ELSE "done",
          rx |-> [data |-> rx.data \o chunk, need |-> rx.need - Len(chunk)]]

\* one turn of the while loop of recv_exact, sock.recv having returned chunk:
\* "raise" (ConnectionError) on b'', else "more" to loop or "done" to return
RecvExactStep(rx, chunk) ==
    IF chunk = <<>>
    THEN [st |-> "raise", rx |-> rx]
    ELSE [st |-> IF rx.need - Len(chunk) > 0 THEN "more" ELSE "done",
          rx |-> [data |-> rx.data \o chunk, need |-> rx.need - Len(chunk)]]

\* the classes raised in the model, all of them subclasses of Exception
ExceptionClasses ==
    {"ConnectionError", "OSError", "timeout", "ValueError", "struct.error", "UnicodeDecodeError"}

\* except Exception as e, in send_message
SendMessageCatches(exc) == exc \in ExceptionClasses

CatchesConnectionErrorOnly(exc) == exc = "ConnectionError"

\* except Exception as e, in recv_message
RecvMessageCatches(exc) == exc \in ExceptionClasses

SendMessageFail(p, exc) ==
    IF SendMessageCatches(exc)
    THEN ReturnSend(Log([p EXCEPT !.exc = Append(@, exc)], "Error sending message"), FALSE)
    ELSE Raise(p, exc)

RecvMessageFail(p, exc) ==
    IF RecvMessageCatches(exc)
    THEN ReturnRecv(Log([p EXCEPT !.exc = Append(@, exc)], "Error receiving message"), None)
    ELSE Raise(p, exc)

TooLargeFromCeiling(n) == n >= Ceiling

\* message_length > 1024 * 1024 * 100
TooLarge(n) == n > Ceiling

\* recv_message once recv_exact(sock, 4) has returned hdr
RecvMessageOnHeader(p, hdr) ==
    IF Len(hdr) # 4 THEN RecvMessageFail(p, "struct.error")
    ELSE LET n == Unpack32(hdr)
             q == [p EXCEPT !.mlen = n]
         IN  IF TooLarge(n) THEN RecvMessageFail(q, "ValueError")
             ELSE IF n = 0 THEN ReturnRecv(q, Bytes(<<>>))
             ELSE [q EXCEPT !.io = "rbody", !.rx = [data |-> <<>>, need |-> n]]

\* the bytes of the pending sendall
OutBytes(p) == IF p.io = "shdr" THEN Pack32(Len(p.tx)) ELSE p.tx

\* the peer after its pending sendall returned (ok) or raised OSError
OnSendAll(p, ok) ==
    CASE p.io = "shdr" -> IF ok THEN [p EXCEPT !.io = "sbody"] ELSE SendMessageFail(p, "OSError")
      [] p.io = "sbody" -> IF ok THEN ReturnSend(p, TRUE) ELSE SendMessageFail(p, "OSError")
      [] OTHER -> IF ok THEN ReturnSendAll(p) ELSE Raise(p, "OSError")

\* exception exc reaches the caller of recv_exact
RecvFail(p, exc) ==
    IF p.io \in {"rhdr", "rbody"} THEN RecvMessageFail(p, exc) ELSE Raise(p, exc)

\* the peer after its pending sock.recv returned r.chunk, or raised
OnRecv(p, r) ==
    IF r.kind = "timeout" THEN RecvFail(p, "timeout")
    ELSE IF r.kind = "reset" THEN RecvFail(p, "OSError")
    ELSE LET x == RecvExactStep(p.rx, r.chunk)
             q == [p EXCEPT !.rx = x.rx]
         IN  CASE x.st = "raise" -> RecvFail(p, "ConnectionError")
               [] x.st = "more" -> q
               [] p.io = "rhdr" -> RecvMessageOnHeader(q, x.rx.data)
               [] p.io = "rbody" -> ReturnRecv(q, Bytes(x.rx.data))
               [] OTHER -> ReturnExact(q, x.rx.data)

----------------------------------------------------------------------------
(* The socket *)

\* what sock.sendall can do: TRUE it wrote everything, FALSE it raised
SendOutcomes(e) ==
    IF st[e].err \/ net = "down" THEN {FALSE}
    ELSE IF ~st[Other(e)].open THEN {TRUE, FALSE}
    ELSE {TRUE}

RecvOutcomesAnyLength(e) ==
    IF st[e].err \/ net = "down" THEN {[kind |-> "reset", chunk |-> <<>>]}
    ELSE IF wire[e] # <<>>
    THEN {[kind |-> "data", chunk |-> Take(wire[e], k)] : k \in 1..Len(wire[e])}
    ELSE IF ~st[Other(e)].open THEN {[kind |-> "data", chunk |-> <<>>]}
    ELSE IF st[e].timed THEN {[kind |-> "timeout", chunk |-> <<>>]}
    ELSE {}

\* what sock.recv(bytes_remaining) can do: return 1..bytes_remaining of the
\* unread bytes, return b'' once the other peer has closed, raise
\* socket.timeout when a timeout is set and nothing arrives, raise
\* ConnectionResetError; with nothing to return it blocks
RecvOutcomes(e) ==
    IF st[e].err \/ net = "down" THEN {[kind |-> "reset", chunk |-> <<>>]}
    ELSE IF wire[e] # <<>>
    THEN {[kind |-> "data", chunk |-> Take(wire[e], k)] :
              k \in 1..Min(st[e].rx.need, Len(wire[e]))}
    ELSE IF ~st[Other(e)].open THEN {[kind |-> "data", chunk |-> <<>>]}
    ELSE IF st[e].timed THEN {[kind |-> "timeout", chunk |-> <<>>]}
    ELSE {}

SockSend(e) ==
    \E ok \in SendOutcomes(e) :
        LET p == st[e]
            b == OutBytes(p)
            delivered == ok /\ st[Other(e)].open
        IN  /\ wire' = IF delivered THEN [wire EXCEPT ![Other(e)] = @ \o b] ELSE wire
            /\ st' = [st EXCEPT ![e] =
                        OnSendAll([p EXCEPT !.sent = IF ok THEN @ \o b ELSE @,
                                            !.err = @ \/ ~ok], ok)]
            /\ UNCHANGED net

SockRecv(e) ==
    \E r \in RecvOutcomes(e) :
        LET p == st[e]
        IN  /\ wire' = [wire EXCEPT ![e] = Drop(@, Len(r.chunk))]
            /\ st' = [st EXCEPT ![e] =
                        OnRecv([p EXCEPT !.got = @ + Len(r.chunk),
                                         !.frags = IF p.trace /\ r.kind = "data"
                                                   THEN Append(@, r.chunk) ELSE @], r)]
            /\ UNCHANGED net

(* Actions: one per socket call of the code *)

\* send_message: sock.sendall(length_header)
SendHeader(e) == st[e].io = "shdr" /\ SockSend(e)
\* send_message: sock.sendall(message_bytes)
SendPayload(e) == st[e].io = "sbody" /\ SockSend(e)
\* send_file: sock.sendall(file_size_bytes)
SendFileSize(e) == st[e].io = "sraw" /\ st[e].sub = "size" /\ SockSend(e)
\* send_file: sock.sendall(chunk)
SendFileChunk(e) == st[e].io = "sraw" /\ st[e].sub = "chunk" /\ SockSend(e)
\* recv_message: one sock.recv of recv_exact(sock, 4)
RecvHeader(e) == st[e].io = "rhdr" /\ SockRecv(e)
\* recv_message: one sock.recv of recv_exact(sock, message_length)
RecvPayload(e) == st[e].io = "rbody" /\ SockRecv(e)
\* one sock.recv of recv_exact(sock, 8) for the file size
RecvFileSize(e) == st[e].io = "raw" /\ (st[e].sub = "size" \/ st[e].pc = "I_size") /\ SockRecv(e)
\* one sock.recv of recv_exact(sock, chunk_size) for file content
RecvFileChunk(e) == st[e].io = "raw" /\ (st[e].sub = "chunk" \/ st[e].pc = "I_chunk") /\ SockRecv(e)

\* leaving the with-block of main closes the socket of a peer that is done
Close(e) ==
    /\ st[e].pc = "done" /\ st[e].open
    /\ st' = [st EXCEPT ![e].open = FALSE]
    /\ UNCHANGED <<wire, net>>

\* the connection is reset
Break ==
    /\ net = "up"
    /\ \E e \in Peers : st[e].pc # "done"
    /\ net' = "down"
    /\ UNCHANGED <<st, wire>>

\* a peer that is not one of the two programs writes some of its bytes
EnvWrite(e) ==
    /\ st[e].pc = "env" /\ st[e].tx # <<>> /\ net = "up"
    /\ \E k \in 1..Len(st[e].tx) :
        /\ wire' = IF st[Other(e)].open
                   THEN [wire EXCEPT ![Other(e)] = @ \o Take(st[e].tx, k)] ELSE wire
        /\ st' = [st EXCEPT ![e].tx = Drop(@, k), ![e].sent = @ \o Take(st[e].tx, k)]
    /\ UNCHANGED net

\* and closes its end whenever it likes
EnvClose(e) ==
    /\ st[e].pc = "env"
    /\ st' = [st EXCEPT ![e] = [Exit(st[e], "Returned") EXCEPT !.open = FALSE]]
    /\ UNCHANGED <<wire, net>>

----------------------------------------------------------------------------
(* The session: the Listener and the Initiator over one connection *)

\* test_file.txt at the Listener: absent, or a content of 0..MaxFile bytes
SessionFiles == {NoFile} \cup {File([i \in 1..n |-> 1]) : n \in 0..MaxFile}

Listener(f) == ListenerStart([Proc0 EXCEPT !.disk = f])
Initiator(ip) == InitiatorStart([Proc0 EXCEPT !.ip = ip])

Init ==
    /\ net = "up"
    /\ wire = [e \in Peers |-> <<>>]
    /\ \E f \in SessionFiles, ip \in LocalIPs :
          st = [e \in Peers |-> IF e = "L" THEN Listener(f) ELSE Initiator(ip)]

Next ==
    \/ \E e \in Peers : SendHeader(e)
    \/ \E e \in Peers : SendPayload(e)
    \/ \E e \in Peers : SendFileSize(e)
    \/ \E e \in Peers : SendFileChunk(e)
    \/ \E e \in Peers : RecvHeader(e)
    \/ \E e \in Peers : RecvPayload(e)
    \/ \E e \in Peers : RecvFileSize(e)
    \/ \E e \in Peers : RecvFileChunk(e)
    \/ \E e \in Peers : Close(e)
    \/ Break

Spec == Init /\ [][Next]_vars

----------------------------------------------------------------------------
(* Channel specification: send_message(p) on one end, or any byte stream,  *)
(* and recv_message on the other end                                       *)

PayloadBytes == {0, 255}
Payloads == SeqUpTo(PayloadBytes, MaxLen)

\* streams no send_message of the model writes: a declared length of
\* ceiling + 1, of the ceiling, of 2^31 - 1, and of 3 with 4 bytes following
RawStreams ==
    {<<6, 64, 0, 1, 9, 9>>, <<6, 64, 0, 0, 9>>, <<127, 255, 255, 255>>, <<0, 0, 0, 3, 1, 2, 3, 4>>}

Receiver(t) == BeginRecvMessage(Enter([Proc0 EXCEPT !.timed = t, !.trace = TRUE], "H_recv"))
Sender(p) == BeginSend(Enter([Proc0 EXCEPT !.arg = p], "H_send"), p)
EnvPeer(b) == [Proc0 EXCEPT !.pc = "env", !.tx = b, !.arg = b]

InitChannel ==
    /\ net = "up"
    /\ wire = [e \in Peers |-> <<>>]
    /\ \E t \in BOOLEAN :
        \/ \E p \in Payloads : st = [e \in Peers |-> IF e = "L" THEN Sender(p) ELSE Receiver(t)]
        \/ \E b \in RawStreams : st = [e \in Peers |-> IF e = "L" THEN EnvPeer(b) ELSE Receiver(t)]

NextChannel ==
    \/ \E e \in Peers : SendHeader(e)
    \/ \E e \in Peers : SendPayload(e)
    \/ \E e \in Peers : RecvHeader(e)
    \/ \E e \in Peers : RecvPayload(e)
    \/ \E e \in Peers : EnvWrite(e)
    \/ \E e \in Peers : EnvClose(e)
    \/ \E e \in Peers : Close(e)
    \/ Break

SpecChannel == InitChannel /\ [][NextChannel]_vars

----------------------------------------------------------------------------
(* Properties of the framed channel, under SpecChannel *)

Range(s) == {s[i] : i \in 1..Len(s)}

RECURSIVE Concat(_)
Concat(ss) == IF ss = <<>> THEN <<>> ELSE ss[1] \o Concat(Tail(ss))

\* the transport itself failed under the receiver: a timeout or a reset
TransportFault(p) == "timeout" \in Range(p.exc) \/ "OSError" \in Range(p.exc)

\* sock.recv returned b'': the stream signalled end-of-data
SawEndOfData(p) == <<>> \in Range(p.frags)

\* the stream written so far holds a whole envelope
WholeEnvelope(b) == Len(b) >= 4 /\ Unpack32(Take(b, 4)) <= Len(b) - 4
PayloadOf(b) == SubSeq(b, 5, 4 + Unpack32(Take(b, 4)))

\* C1: round trip.  When send_message(p) returned True and recv_message on
\* the other end has returned without a timeout or reset of the transport,
\* recv_message returned exactly p (for p empty: b'', not None).
C1_RoundTrip ==
    (/\ st["L"].path = <<"H_send">>
     /\ st["L"].ret = Bool(TRUE)
     /\ st["I"].ret # Pending
     /\ ~TransportFault(st["I"]))
    => st["I"].ret = Bytes(st["L"].arg)

C1_Witness ==
    /\ st["L"].ret = Bool(TRUE)
    /\ Len(st["L"].arg) = MaxLen
    /\ st["I"].ret = Bytes(st["L"].arg)

C1_WitnessEmpty ==
    /\ st["L"].path = <<"H_send">>
    /\ st["L"].arg = <<>>
    /\ st["I"].ret = Bytes(<<>>)

\* C2: partial reads.  Whenever the stream carries a whole envelope and
\* recv_message has returned without a timeout or reset, however sock.recv
\* cut the bytes into chunks, it returned the envelope's payload, and the
\* chunks it read are, in order, the first 4 + length bytes of the stream.
C2_PartialReads ==
    (/\ WholeEnvelope(st["L"].sent)
     /\ st["I"].ret # Pending
     /\ ~TransportFault(st["I"]))
    => /\ st["I"].ret = Bytes(PayloadOf(st["L"].sent))
       /\ Concat(st["I"].frags) = Take(st["L"].sent, 4 + Len(st["I"].ret.v))

\* an envelope read one byte at a time, header included
C2_Witness ==
    /\ st["I"].ret.k = "bytes"
    /\ Len(st["I"].ret.v) >= 2
    /\ Len(st["I"].frags) = 4 + Len(st["I"].ret.v)
    /\ \A i \in 1..Len(st["I"].frags) : Len(st["I"].frags[i]) = 1

\* C3: ceiling.  A declared length above the ceiling makes recv_message
\* return None having read the 4 header bytes and nothing else, with no
\* payload read issued; a declared length equal to the ceiling is not
\* rejected: the payload read is issued.
C3_Ceiling ==
    /\ st["I"].mlen > Ceiling =>
          /\ st["I"].ret = None
          /\ st["I"].got = 4
          /\ st["I"].io # "rbody"
          /\ "ValueError" \in Range(st["I"].exc)
    /\ (st["I"].mlen >= 0 /\ st["I"].mlen <= Ceiling) =>
          /\ "ValueError" \notin Range(st["I"].exc)
          /\ st["I"].mlen > 0 => (st["I"].io = "rbody" \/ st["I"].ret # Pending)

C3_Witness ==
    /\ st["I"].mlen = Ceiling + 1
    /\ st["I"].ret = None
    /\ Len(st["L"].sent) > 4

C3_WitnessAtCeiling ==
    /\ st["I"].mlen = Ceiling
    /\ st["I"].io = "rbody"

\* C4: premature close.  Once sock.recv has returned b'' the call returns
\* None; a length is only ever decoded from 4 bytes; a payload that is
\* returned has the declared length.
C4_PrematureClose ==
    /\ SawEndOfData(st["I"]) => st["I"].ret = None
    /\ st["I"].mlen >= 0 => st["I"].got >= 4
    /\ st["I"].ret.k = "bytes" => Len(st["I"].ret.v) = st["I"].mlen

\* the stream ends after 2 of the 4 header bytes
C4_Witness ==
    /\ SawEndOfData(st["I"])
    /\ st["I"].got = 2
    /\ st["I"].mlen = -1
    /\ st["I"].ret = None

\* the stream ends after the header and part of the payload
C4_WitnessPayload ==
    /\ SawEndOfData(st["I"])
    /\ st["I"].mlen = 3
    /\ st["I"].got = 5
    /\ st["I"].ret = None

\* C5: no failure escapes.  send_message returns True or False and
\* recv_message a bytes object or None, whatever the transport did; a write
\* error gives False, and a timeout, a reset, end-of-data or an oversized
\* length inside recv_message gives None.
C5_NoEscape ==
    /\ \A e \in Peers : st[e].ret.k # "raise" /\ st[e].out # "Crashed"
    /\ (st["L"].path = <<"H_send">> /\ st["L"].pc = "done") =>
          /\ st["L"].ret.k \in {"true", "false"}
          /\ st["L"].exc # <<>> <=> st["L"].ret = Bool(FALSE)
    /\ st["I"].pc = "done" =>
          /\ st["I"].ret.k \in {"bytes", "none"}
          /\ st["I"].exc # <<>> <=> st["I"].ret = None

\* a read timeout inside recv_message, seen as None
C5_Witness ==
    /\ st["I"].exc = <<"timeout">>
    /\ st["I"].ret = None

C5_WitnessSend ==
    /\ st["L"].exc = <<"OSError">>
    /\ st["L"].ret = Bool(FALSE)

----------------------------------------------------------------------------
(* File specification: send_file on one end, recv_file on the other *)

FileBytes == {1, 2}
\* the source file: absent, or any content of 0..MaxFile bytes
SourceFiles == {NoFile} \cup {File(d) : d \in SeqUpTo(FileBytes, MaxFile)}

FileSender(f) == SendFileStart(Enter([Proc0 EXCEPT !.disk = f], "H_sendfile"))
\* the destination does not exist before the call
FileReceiver == RecvFileStart(Enter(Proc0, "H_recvfile"))

InitFile ==
    /\ net = "up"
    /\ wire = [e \in Peers |-> <<>>]
    /\ \E f \in SourceFiles :
          st = [e \in Peers |-> IF e = "L" THEN FileSender(f) ELSE FileReceiver]

SpecFile == InitFile /\ [][Next]_vars

\* C6: file round trip.  With the source present and the connection never
\* reset, send_file returns True, recv_file returns True, and when recv_file
\* has returned the destination holds exactly the bytes of the source, for
\* every chunk count and every chunking of the stream by sock.recv.
C6_FileRoundTrip ==
    (net = "up" /\ st["L"].disk.exists) =>
        /\ st["L"].pc = "done" => st["L"].ret = Bool(TRUE)
        /\ st["I"].pc = "done" =>
              /\ st["I"].ret = Bool(TRUE)
              /\ st["I"].disk = File(st["L"].disk.data)
              /\ st["I"].fname = TestFileName

\* a source of more than one chunk
C6_Witness ==
    /\ Len(st["L"].disk.data) > ChunkSize
    /\ st["L"].ret = Bool(TRUE)
    /\ st["I"].ret = Bool(TRUE)
    /\ st["I"].disk = st["L"].disk

\* a 0-byte source gives an empty destination file
C6_WitnessEmpty ==
    /\ st["L"].disk = File(<<>>)
    /\ st["L"].ret = Bool(TRUE)
    /\ st["I"].ret = Bool(TRUE)
    /\ st["I"].disk = File(<<>>)

----------------------------------------------------------------------------
(* Properties of the session, under Spec *)

\* everything the Listener writes in a session that runs to its end
ListenerStream(f) ==
    Envelope(Hello) \o Envelope(LargeMessage) \o
    (IF f.exists THEN Envelope(TestFileName) \o Pack64(Len(f.data)) \o f.data ELSE <<>>)

\* C8: transcript order.  The Listener's bytes are, in order, the Hello
\* envelope, the large-payload envelope and then, if at all, the file-name
\* envelope, the 8-byte size and the content; the Initiator's bytes are its
\* identity envelope.  The Initiator writes only after it has received the
\* greeting, and the Listener writes beyond the greeting only after it has
\* received the whole identity and found three fields in it.
C8_TranscriptOrder ==
    LET L == st["L"]
        I == st["I"]
        id == Identity(I.ip)
    IN  /\ IsPrefix(L.sent, ListenerStream(L.disk))
        /\ IsPrefix(I.sent, Envelope(id))
        /\ (I.sent # <<>> \/ "I_ident" \in Range(I.path)) =>
              /\ I.vals # <<>> /\ I.vals[1] = Bytes(Hello)
              /\ I.got >= Len(Envelope(Hello))
              /\ IsPrefix(Envelope(Hello), L.sent)
        /\ (Len(L.sent) > Len(Envelope(Hello)) \/ "L_large" \in Range(L.path)) =>
              /\ L.vals = <<Bytes(id)>>
              /\ L.got = Len(Envelope(id))
              /\ FieldCount(id) = 3
        /\ "L_file" \in Range(L.path) => "L_large" \in Range(L.path)

\* the whole transcript, file included, has been written and read
C8_Witness ==
    /\ st["L"].disk.exists /\ Len(st["L"].disk.data) > 0
    /\ st["L"].sent = ListenerStream(st["L"].disk)
    /\ st["I"].sent = Envelope(Identity(st["I"].ip))
    /\ st["I"].disk = st["L"].disk
    /\ st["I"].out = "Complete"

\* the calls of the session script that are framed operations
FramedCalls == {"L_hello", "L_ident", "L_large", "L_err", "I_hello", "I_ident", "I_large", "I_probe"}

\* C10: a failed framed operation ends the session.  Once a send_message or
\* recv_message call of the script has reported failure, the peer is
\* Aborted: it runs no later step and does not report Complete.
C10_FailureAborts ==
    \A e \in Peers :
        (\E i \in 1..Len(st[e].fails) : st[e].fails[i] \in FramedCalls) =>
            /\ st[e].pc = "done"
            /\ st[e].out = "Aborted"

\* the same for the steps the script does check
C10_CheckedCalls ==
    \A e \in Peers :
        (\E i \in 1..Len(st[e].fails) : st[e].fails[i] \in {"L_hello", "L_ident", "I_hello", "I_ident"}) =>
            /\ st[e].pc = "done"
            /\ st[e].out = "Aborted"

\* the Listener alone: a failed send of the large payload
C10_ListenerOnly ==
    "L_large" \in Range(st["L"].fails) => st["L"].out \notin {"running", "Complete"}

\* the Initiator alone: a failed receive of the large payload
C10_InitiatorOnly ==
    "I_large" \in Range(st["I"].fails) => st["I"].out \notin {"running", "Complete"}

----------------------------------------------------------------------------
(* Listener specification: the Listener facing an arbitrary peer *)

\* texts over '+', 'a' and the byte 0xFF, and the Initiator's own identity
IdentityPayloads ==
    SeqUpTo({Plus, 97, 255}, MaxIdent) \cup {Identity(ip) : ip \in LocalIPs}

\* what the peer writes: an identity envelope, or a header above the ceiling
ListenerPeerStreams == {Envelope(t) : t \in IdentityPayloads} \cup {<<6, 64, 0, 1>>}

InitListener ==
    /\ net = "up"
    /\ wire = [e \in Peers |-> <<>>]
    /\ \E f \in {NoFile, File(<<1, 1, 1>>)}, b \in ListenerPeerStreams :
          st = [e \in Peers |-> IF e = "L" THEN Listener(f) ELSE EnvPeer(b)]

NextListener ==
    \/ \E e \in Peers : SendHeader(e)
    \/ \E e \in Peers : SendPayload(e)
    \/ \E e \in Peers : SendFileSize(e)
    \/ \E e \in Peers : SendFileChunk(e)
    \/ \E e \in Peers : RecvHeader(e)
    \/ \E e \in Peers : RecvPayload(e)
    \/ \E e \in Peers : EnvWrite(e)
    \/ \E e \in Peers : EnvClose(e)
    \/ \E e \in Peers : Close(e)
    \/ Break

SpecListener == InitListener /\ [][NextListener]_vars

\* the identity payload the Listener's recv_message returned
IdentityReceived == st["L"].vals # <<>> /\ st["L"].vals[1].k = "bytes"
IdentityText == st["L"].vals[1].v

\* the Listener is sending, or has sent, an envelope whose text starts "ERROR: "
SendsErrorEnvelope ==
    /\ "L_err" \in Range(st["L"].path)
    /\ st["L"].pc = "L_err" => IsPrefix(ErrorPrefix, st["L"].tx)
    /\ (st["L"].pc = "done" /\ ~st["L"].err) =>
          \E t \in {ErrInvalidFormat, ErrMissingSeparator} :
              st["L"].sent = Envelope(Hello) \o Envelope(t)

\* C7: identity parsing.  For every identity payload received that decodes
\* as text: with exactly three '+'-separated fields the Listener goes on to
\* send the large payload; with any other field count, the empty message
\* included, it sends an "ERROR: " envelope and ends Aborted, without
\* sending the large payload or a file.
C7_IdentityParsing ==
    (IdentityReceived /\ Utf8Valid(IdentityText)) =>
        IF FieldCount(IdentityText) = 3
        THEN "L_large" \in Range(st["L"].path) /\ st["L"].out # "Aborted"
        ELSE /\ SendsErrorEnvelope
             /\ "L_large" \notin Range(st["L"].path)
             /\ "L_file" \notin Range(st["L"].path)
             /\ st["L"].pc = "done" => st["L"].out = "Aborted"

\* the same with the empty message left out
C7_NonEmptyIdentity ==
    (IdentityReceived /\ Utf8Valid(IdentityText) /\ IdentityText # <<>>) =>
        IF FieldCount(IdentityText) = 3
        THEN "L_large" \in Range(st["L"].path) /\ st["L"].out # "Aborted"
        ELSE /\ SendsErrorEnvelope
             /\ "L_large" \notin Range(st["L"].path)
             /\ "L_file" \notin Range(st["L"].path)
             /\ st["L"].pc = "done" => st["L"].out = "Aborted"

\* the empty identity: nothing is sent after the greeting
C7_EmptyIdentitySendsNothing ==
    (IdentityReceived /\ IdentityText = <<>>) =>
        /\ st["L"].path = <<"L_hello", "L_ident">>
        /\ st["L"].sent = Envelope(Hello)
        /\ st["L"].out = "Aborted"

C7_WitnessEmpty == IdentityReceived /\ IdentityText = <<>> /\ st["L"].pc = "done"

----------------------------------------------------------------------------
(* Initiator specification: the Initiator facing an arbitrary peer *)

\* "Hello", "Hell", "Hello!", "hello", the empty text and the byte 0xFF
Greetings ==
    {Hello, Take(Hello, 4), Hello \o <<33>>, <<104, 101, 108, 108, 111>>, <<>>, <<255>>}

\* what may follow the greeting: nothing, a payload, a payload and a file
\* of 0..MaxFile bytes, a payload and a file name alone, the Listener's
\* answer to an identity it could not parse
PeerTails ==
    {<<>>, Envelope(<<120>>), Envelope(<<120>>) \o Envelope(<<102>>), Envelope(ErrInvalidFormat)}
    \cup {Envelope(<<120>>) \o Envelope(<<102>>) \o Pack64(n) \o [i \in 1..n |-> 1] : n \in 0..MaxFile}

InitiatorPeerStreams ==
    {Envelope(g) : g \in Greetings} \cup {Envelope(Hello) \o t : t \in PeerTails}
    \cup {<<6, 64, 0, 1>>}

InitInitiator ==
    /\ net = "up"
    /\ wire = [e \in Peers |-> <<>>]
    /\ \E ip \in LocalIPs, b \in InitiatorPeerStreams :
          st = [e \in Peers |-> IF e = "L" THEN EnvPeer(b) ELSE Initiator(ip)]

NextInitiator ==
    \/ \E e \in Peers : SendHeader(e)
    \/ \E e \in Peers : SendPayload(e)
    \/ \E e \in Peers : RecvHeader(e)
    \/ \E e \in Peers : RecvPayload(e)
    \/ \E e \in Peers : RecvFileSize(e)
    \/ \E e \in Peers : RecvFileChunk(e)
    \/ \E e \in Peers : EnvWrite(e)
    \/ \E e \in Peers : EnvClose(e)
    \/ \E e \in Peers : Close(e)
    \/ Break

SpecInitiator == InitInitiator /\ [][NextInitiator]_vars

\* C9: greeting check.  Once the greeting receive has returned: if it
\* returned exactly "Hello" the Initiator goes on to send its identity;
\* otherwise (other content, or None) it has written nothing, makes no
\* further receive and has stopped without Complete.  The identity is sent
\* only after a greeting that is exactly "Hello".
C9_GreetingCheck ==
    LET I == st["I"]
    IN  /\ I.vals # <<>> =>
              IF I.vals[1] = Bytes(Hello)
              THEN "I_ident" \in Range(I.path)
              ELSE /\ I.path = <<"I_hello">>
                   /\ I.sent = <<>>
                   /\ Len(I.vals) = 1
                   /\ I.pc = "done" /\ I.io = "idle"
                   /\ I.out \in {"Stopped", "Aborted"}
        /\ ("I_ident" \in Range(I.path) \/ I.sent # <<>>) =>
              I.vals # <<>> /\ I.vals[1] = Bytes(Hello)

\* "Hello" received and the identity written
C9_Witness ==
    /\ st["I"].vals # <<>> /\ st["I"].vals[1] = Bytes(Hello)
    /\ st["I"].sent = Envelope(Identity(st["I"].ip))

\* a greeting that is not "Hello": the Initiator stops
C9_WitnessOther ==
    /\ st["I"].vals = <<Bytes(Take(Hello, 4))>>
    /\ st["I"].out = "Stopped"

----------------------------------------------------------------------------
(* The optional-file probe of the Initiator, under Spec and SpecInitiator *)

\* both scripts have ended over a sound connection, the Listener having no
\* test_file.txt
NoFileSessionOver ==
    /\ net = "up"
    /\ ~st["L"].disk.exists
    /\ st["L"].pc = "done" /\ st["I"].pc = "done"

\* C11: end-to-end without a file.  When the Listener has no file to send
\* and the connection stays sound, both peers end Complete, the Initiator
\* has created no file, and the Initiator's probe has ended by the expiry
\* of its receive timeout: the only exception of the Initiator's run is a
\* socket.timeout, not a connection-closed or other error.
C11_NoFileSession ==
    NoFileSessionOver =>
        /\ st["L"].out = "Complete" /\ st["I"].out = "Complete"
        /\ ~st["I"].disk.exists
        /\ st["I"].exc = <<"timeout">>

\* what does hold of that run: both Complete, no file, and the probe ended
\* by a timeout or by the end-of-data of the Listener's close
C11_BothComplete ==
    NoFileSessionOver =>
        /\ st["L"].out = "Complete" /\ st["I"].out = "Complete"
        /\ ~st["I"].disk.exists
        /\ st["I"].exc \in {<<"timeout">>, <<"ConnectionError">>}

\* the probe ended by the Listener's close
C11_ProbeSawClose == NoFileSessionOver /\ st["I"].exc = <<"ConnectionError">>

\* the probe ended by its timeout
C11_ProbeTimedOut == NoFileSessionOver /\ st["I"].exc = <<"timeout">>


\* the bytes the Initiator reads before its probe: the greeting and the
\* large-payload envelopes it received
BeforeProbe(p) == Len(Envelope(p.vals[1].v)) + Len(Envelope(p.vals[2].v))

\* C12: a timeout in the probe is not fatal.  When the probe's receive
\* timed out (no byte of a file-name envelope had arrived, or only a part
\* of one), the probe returned no file name, no file exists at the
\* Initiator, no error line of the session script is printed, and the
\* Initiator has ended Complete.
C12_TimeoutNonFatal ==
    LET I == st["I"]
    IN  "timeout" \in Range(I.exc) =>
            /\ I.path[Len(I.path)] = "I_probe"
            /\ I.vals[Len(I.vals)] = None
            /\ ~I.disk.exists
            /\ "File transfer issue" \notin Range(I.log)
            /\ "Error" \notin Range(I.log)
            /\ I.pc = "done" /\ I.out = "Complete"

\* the timeout struck with nothing of a file-name envelope read
C12_Witness ==
    /\ st["I"].exc = <<"timeout">>
    /\ Len(st["I"].vals) = 3
    /\ st["I"].got = BeforeProbe(st["I"])
    /\ st["I"].out = "Complete"

\* the timeout struck after a part of the file-name envelope was read
C12_WitnessPartial ==
    /\ st["I"].exc = <<"timeout">>
    /\ Len(st["I"].vals) = 3
    /\ st["I"].got > BeforeProbe(st["I"])
    /\ st["I"].out = "Complete"

\* C13: the probe's timeout is confined to the probe.  The socket has a
\* receive timeout only while the Initiator waits for the file-name
\* envelope: the reads of the file size and of the content run without
\* one, the socket has none once the script has ended, whichever way the
\* probe was left, and a timeout leaves no file behind.
C13_TimeoutConfined ==
    LET I == st["I"]
    IN  /\ I.timed => I.pc = "I_probe" /\ I.io \in {"rhdr", "rbody"}
        /\ I.pc \in {"I_size", "I_chunk", "done"} => ~I.timed
        /\ "timeout" \in Range(I.exc) => ~I.disk.exists /\ I.pc = "done"

\* the size field is being read after a file name arrived: no timeout
C13_Witness ==
    /\ st["I"].pc = "I_size" /\ st["I"].rx.data # <<>>
    /\ "I_probe" \in Range(st["I"].path)
    /\ ~st["I"].timed

\* the probe was left by a timeout and the socket has none any more
C13_WitnessAfterTimeout ==
    /\ st["I"].exc = <<"timeout">> /\ st["I"].pc = "done" /\ ~st["I"].timed


----------------------------------------------------------------------------
(* send_file while another process changes the file *)

\* between os.path.getsize and a later f.read, the file is cut short
FileShrinks(e) ==
    /\ st[e].pc \in {"H_sendfile", "L_file"}
    /\ st[e].disk.exists
    /\ \E k \in 0..(Len(st[e].disk.data) - 1) :
          st' = [st EXCEPT ![e].disk = File(Take(st[e].disk.data, k))]
    /\ UNCHANGED <<wire, net>>

NextFileChanging ==
    \/ Next
    \/ \E e \in Peers : FileShrinks(e)

SpecFileChanging == InitFile /\ [][NextFileChanging]_vars

\* the bytes of a whole file transfer whose size field is n: the file-name
\* envelope, the 8 raw bytes of the size, n bytes of content
IsFileTransfer(b, name, n) ==
    /\ IsPrefix(Envelope(name) \o Pack64(n), b)
    /\ Len(b) = Len(Envelope(name)) + 8 + n

\* C14: sender size agreement.  Whenever send_file has returned True, what
\* it wrote to the socket is the file-name envelope, the 8-byte big-endian
\* size with no envelope around it, and exactly as many content bytes as
\* that size field says.
C14_SenderSizeAgreement ==
    \A e \in Peers :
        (st[e].pc = "done" /\ st[e].ret = Bool(TRUE) /\ "H_sendfile" \in Range(st[e].path)) =>
            IsFileTransfer(st[e].sent, st[e].fname, st[e].fsize)

\* send_file returned True having sent fewer content bytes than declared
C14_ShortSuccess ==
    /\ st["L"].ret = Bool(TRUE)
    /\ Len(st["L"].sent) < Len(Envelope(st["L"].fname)) + 8 + st["L"].fsize


----------------------------------------------------------------------------
(* Receive specification: recv_file, and the Initiator's inline reception, *)
(* facing a peer that writes a file transfer followed by one more byte     *)

\* "f", the 8-byte size n, n bytes of content and a byte that is not content
FileStreams ==
    {Envelope(<<102>>) \o Pack64(n) \o [i \in 1..n |-> 1] \o <<2>> : n \in 0..MaxFile}

InitReceive ==
    /\ net = "up"
    /\ wire = [e \in Peers |-> <<>>]
    /\ \E b \in FileStreams :
        \/ st = [e \in Peers |-> IF e = "L" THEN EnvPeer(b) ELSE FileReceiver]
        \/ \E ip \in LocalIPs :
              st = [e \in Peers |->
                       IF e = "L" THEN EnvPeer(Envelope(Hello) \o Envelope(<<120>>) \o b)
                                  ELSE Initiator(ip)]

SpecReceive == InitReceive /\ [][NextInitiator]_vars

\* the receiver runs recv_file (otherwise it is the Initiator's main)
InRecvFile(p) == "H_recvfile" \in Range(p.path)

\* the number of bytes of the stream that precede the file content
ContentStart(p) ==
    (IF InRecvFile(p) THEN 0 ELSE BeforeProbe(p)) + Len(Envelope(p.fname)) + 8

\* the reception reported success: recv_file returned True, or the inline
\* reception reached "File saved" with no exception
ReceivedFile(p) ==
    /\ p.pc = "done" /\ p.sized
    /\ IF InRecvFile(p) THEN p.ret = Bool(TRUE) ELSE p.exc = <<>> /\ p.out = "Complete"

\* C15: receiver size agreement.  Once the size field is read, each content
\* read asks for min(chunk size, bytes remaining), so the receiver never
\* reads past the declared content and what it wrote is the content so far;
\* it reports success only with exactly size bytes written; and when the
\* stream ended before that, recv_file has returned False.
C15_ReceiverSizeAgreement ==
    LET I == st["I"]
        start == ContentStart(I)
    IN  I.sized =>
            /\ I.got <= start + I.fsize
            /\ I.disk.exists /\ Len(I.disk.data) = I.off /\ I.off <= I.fsize
            /\ I.disk.data = SubSeq(st["L"].arg, start + 1, start + I.off)
            /\ I.io = "raw" => /\ I.off < I.fsize
                               /\ I.got = start + I.off + Len(I.rx.data)
                               /\ Len(I.rx.data) + I.rx.need = Min(ChunkSize, I.fsize - I.off)
            /\ ReceivedFile(I) => I.off = I.fsize /\ I.got = start + I.fsize
            /\ (I.pc = "done" /\ InRecvFile(I) /\ I.off < I.fsize) => I.ret = Bool(FALSE)

\* recv_file returned True for a file of more than one chunk, the byte
\* after the content still unread
C15_Witness ==
    /\ InRecvFile(st["I"]) /\ ReceivedFile(st["I"])
    /\ st["I"].fsize > ChunkSize
    /\ wire["I"] = <<2>>

\* the stream ended inside the content: recv_file returned False
C15_WitnessShort ==
    /\ InRecvFile(st["I"]) /\ st["I"].sized /\ st["I"].ret = Bool(FALSE)
    /\ "ConnectionError" \in Range(st["I"].exc)
    /\ 0 < st["I"].off /\ st["I"].off < st["I"].fsize

\* C16: zero-size file.  When the size field received is 0, the receiver
\* has created an empty file, has read nothing after the size field and
\* has reported success, in recv_file and in the Initiator's inline
\* reception alike.
C16_ZeroSize ==
    LET I == st["I"]
    IN  (I.sized /\ I.fsize = 0) =>
            /\ I.disk = File(<<>>)
            /\ I.got = ContentStart(I)
            /\ I.io = "idle"
            /\ ReceivedFile(I)

\* recv_file with a size field of 0
C16_Witness ==
    /\ InRecvFile(st["I"]) /\ st["I"].sized /\ st["I"].fsize = 0
    /\ st["I"].ret = Bool(TRUE) /\ st["I"].disk = File(<<>>)

\* the inline reception with a size field of 0
C16_WitnessInline ==
    /\ ~InRecvFile(st["I"]) /\ st["I"].sized /\ st["I"].fsize = 0
    /\ st["I"].out = "Complete" /\ st["I"].disk = File(<<>>)


----------------------------------------------------------------------------
(* The status sink, under Spec *)

\* the lines of the model that report no failure
CompletionLines ==
    {"L: Enhanced protocol completed successfully!",
     "I: Enhanced protocol completed successfully!",
     "No file transfer (timeout - normal)"}

\* the error lines send_message and recv_message print themselves
ChannelLines == {"Error sending message", "Error receiving message"}

\* the number of error lines a peer has printed
ErrorLines(p) == Cardinality({i \in 1..Len(p.log) : p.log[i] \notin CompletionLines})

\* the number of error lines of the framed channel among them
ChannelErrorLines(p) == Cardinality({i \in 1..Len(p.log) : p.log[i] \in ChannelLines})

\* C17: every failure is reported exactly once.  Each peer has printed as
\* many error lines as failures occurred in its run (every failed send or
\* receive, oversized length and premature close is an exception raised in
\* the peer; the two programs never send each other a text that fails to
\* parse): none is missing and none is printed by both the framed channel
\* and the session script.
C17_ReportedOnce ==
    \A e \in Peers : ErrorLines(st[e]) = Len(st[e].exc)

\* no failure goes unreported
C17_AtLeastOnce ==
    \A e \in Peers : ErrorLines(st[e]) >= Len(st[e].exc)

\* one failure, two lines: the channel's and the script's
C17_ReportedTwice ==
    \E e \in Peers :
        /\ Len(st[e].exc) = 1
        /\ ErrorLines(st[e]) = 2 /\ ChannelErrorLines(st[e]) = 1


----------------------------------------------------------------------------
(* Stream specification: send_message called for each payload of a         *)
(* sequence on one end, recv_message called as many times on the other     *)

MaxMsgs == 3

\* the empty payload, and payloads that read as part of a length header
StreamPayloads == {<<>>, <<7>>, <<0, 0>>}
PayloadSeqs == UNION {[1..n -> StreamPayloads] : n \in 1..MaxMsgs}

SenderOf(ps) ==
    BeginSend(Enter([Proc0 EXCEPT !.msgs = ps, !.turn = 1], "H_sendn"), ps[1])
ReceiverOf(n) == BeginRecvMessage(Enter([Proc0 EXCEPT !.want = n], "H_recvn"))

InitStream ==
    /\ net = "up"
    /\ wire = [e \in Peers |-> <<>>]
    /\ \E ps \in PayloadSeqs :
          st = [e \in Peers |-> IF e = "L" THEN SenderOf(ps) ELSE ReceiverOf(Len(ps))]

NextStream ==
    \/ \E e \in Peers : SendHeader(e)
    \/ \E e \in Peers : SendPayload(e)
    \/ \E e \in Peers : RecvHeader(e)
    \/ \E e \in Peers : RecvPayload(e)
    \/ \E e \in Peers : Close(e)
    \/ Break

SpecStream == InitStream /\ [][NextStream]_vars

\* the number of bytes of the envelopes of the first k payloads of ps
RECURSIVE EnvelopeBytes(_, _)
EnvelopeBytes(ps, k) == IF k = 0 THEN 0 ELSE EnvelopeBytes(ps, k - 1) + 4 + Len(ps[k])

\* the number of recv_message calls that have returned a payload
Returned(p) == Cardinality({i \in 1..Len(p.vals) : p.vals[i] # None})

\* C18: stream synchronisation.  The k-th recv_message call that succeeds
\* returns the payload of the k-th send_message call; when k calls have
\* returned, exactly the bytes of the first k envelopes have been read,
\* every later byte being still unread; and with the connection never
\* reset, the receiver ends with all the payloads, in order, however
\* sock.recv cut the stream.
C18_StreamSync ==
    LET L == st["L"]
        I == st["I"]
        k == Returned(I)
    IN  /\ k <= Len(L.msgs)
        /\ \A i \in 1..k : I.vals[i] = Bytes(L.msgs[i])
        /\ I.io = "rhdr" => I.got = EnvelopeBytes(L.msgs, k) + Len(I.rx.data)
        /\ I.io = "rbody" => I.got = EnvelopeBytes(L.msgs, k) + 4 + Len(I.rx.data)
        /\ (I.pc = "done" /\ k = Len(I.vals)) => I.got = EnvelopeBytes(L.msgs, k)
        /\ (net = "up" /\ I.pc = "done") =>
              /\ k = Len(L.msgs) /\ Len(I.vals) = k
              /\ wire["I"] = <<>>

\* three different payloads came back in the order they were sent
C18_Witness ==
    /\ st["L"].msgs = <<(<<0, 0>>), (<<>>), (<<7>>)>>
    /\ st["I"].vals = <<Bytes(<<0, 0>>), Bytes(<<>>), Bytes(<<7>>)>>
    /\ st["I"].pc = "done"

\* a payload has been returned while bytes of the next envelope are unread
C18_WitnessUnread ==
    /\ Returned(st["I"]) = 1 /\ st["I"].io = "rhdr" /\ st["I"].rx.data = <<>>
    /\ Len(wire["I"]) > 4


----------------------------------------------------------------------------
(* Termination of the session: each peer keeps running *)

\* the steps of peer e: its socket calls, and the close at the end
PeerStep(e) ==
    \/ SendHeader(e) \/ SendPayload(e) \/ SendFileSize(e) \/ SendFileChunk(e)
    \/ RecvHeader(e) \/ RecvPayload(e) \/ RecvFileSize(e) \/ RecvFileChunk(e)
    \/ Close(e)

\* a socket call that can return does return, and a script that has ended
\* leaves its with-block
SpecLive == Init /\ [][Next]_vars /\ \A e \in Peers : WF_vars(PeerStep(e))

\* peer e is in a sock.recv that cannot return
BlockedInRecv(e) == st[e].io \in {"rhdr", "rbody", "raw"} /\ RecvOutcomes(e) = {}

\* both scripts have ended and both sockets are closed
Terminated == \A e \in Peers : st[e].pc = "done" /\ ~st[e].open

\* C19: session termination.  In every run both peers end their scripts
\* and close; no state has both peers blocked in a receive; and the
\* Initiator does not stay in its probe for a file for ever.
C19_Termination ==
    /\ [](~(BlockedInRecv("L") /\ BlockedInRecv("I")))
    /\ <>[]Terminated
    /\ [](st["I"].pc = "I_probe" => <>(st["I"].pc = "done"))

\* the session is over, the Initiator having probed for a file that the
\* Listener did not have
C19_Witness ==
    /\ Terminated
    /\ ~st["L"].disk.exists
    /\ "I_probe" \in Range(st["I"].path)
    /\ st["I"].out = "Complete"

\* one peer is blocked in a receive while the other is about to send
C19_WitnessOneBlocked ==
    /\ BlockedInRecv("L") /\ st["I"].io = "shdr"


----------------------------------------------------------------------------
(* The file transfer of the session, under Spec *)

\* C20: file-transfer agreement.  When both scripts have ended over a
\* connection that was never reset and the Listener's send_file returned
\* True, the Initiator has saved a file with the content of the Listener's
\* file and has ended Complete.
C20_FileAgreement ==
    (net = "up" /\ st["L"].pc = "done" /\ st["I"].pc = "done" /\ st["L"].ret = Bool(TRUE)) =>
        /\ st["I"].disk = st["L"].disk
        /\ st["I"].out = "Complete"

\* the probe timed out before the file name arrived: send_file returned
\* True and the Initiator ended Complete with no file
C20_TimedOutBeforeFile ==
    /\ net = "up" /\ st["L"].pc = "done" /\ st["I"].pc = "done"
    /\ st["L"].ret = Bool(TRUE) /\ Len(st["L"].disk.data) > 0
    /\ st["I"].exc = <<"timeout">>
    /\ ~st["I"].disk.exists /\ st["I"].out = "Complete"

\* without a timeout of the probe the file does arrive
C20_AgreementWithoutTimeout ==
    (net = "up" /\ st["L"].pc = "done" /\ st["I"].pc = "done" /\ st["L"].ret = Bool(TRUE)
     /\ "timeout" \notin Range(st["I"].exc)) =>
        /\ st["I"].disk = st["L"].disk
        /\ st["I"].out = "Complete"


----------------------------------------------------------------------------
(* The outcomes of the two peers, under Spec *)

\* C21: outcome agreement.  When the Initiator has ended Complete, the
\* Listener, once its script has ended, has ended Complete too, and a file
\* whose reception the Initiator began was received whole: the Initiator
\* does not take for completed a session that the Listener aborted or in
\* which the file transfer was cut short.
C21_OutcomeAgreement ==
    st["I"].out = "Complete" =>
        /\ st["L"].pc = "done" => st["L"].out = "Complete"
        /\ st["I"].sized => st["I"].off = st["I"].fsize

\* the Listener aborted on its identity receive, the Initiator ended Complete
C21_ListenerAborted ==
    /\ st["I"].out = "Complete"
    /\ st["L"].out = "Aborted"
    /\ st["L"].path = <<"L_hello", "L_ident">>

\* the file transfer was cut short, the Initiator ended Complete with a
\* part of the file on disk
C21_FileCutShort ==
    /\ st["I"].out = "Complete"
    /\ st["I"].sized /\ 0 < st["I"].off /\ st["I"].off < st["I"].fsize
    /\ st["I"].disk = File(Take(st["L"].disk.data, st["I"].off))

\* with the connection never reset, the Listener of a session the
\* Initiator ended Complete ends Complete as well
C21_AgreementWithoutReset ==
    (net = "up" /\ st["I"].out = "Complete" /\ st["L"].pc = "done") => st["L"].out = "Complete"


\* under SpecInitiator: the peer answered the identity with "ERROR: Invalid
\* format" and closed, and the Initiator ended Complete
C21_CompleteAfterError ==
    /\ Len(st["I"].vals) >= 2 /\ st["I"].vals[2] = Bytes(ErrInvalidFormat)
    /\ st["I"].out = "Complete"

=============================================================================
